---- MODULE Spec2Model ----
(***************************************************************************)
(* A model of package invoker (src/invoker.go): the Invoker built by New,  *)
(* the Invoke pipeline (input mutators, transport call, output mutators,   *)
(* FunctionError check) and the AsProcedure option with its two mutators.  *)
(*                                                                         *)
(* Go values.  A pointer, a slice that may be nil and an error interface   *)
(* are modelled as a sequence of length at most one: <<>> is nil, <<v>> is *)
(* a non-nil reference to v.  A []byte / json.RawMessage is a sequence of  *)
(* JSON tokens; the bytes are the concatenation of the tokens' texts, so   *)
(* <<"{", "\"body\"", ":", "1", "}">> is the byte string {"body":1}.       *)
(***************************************************************************)
EXTENDS Integers, Sequences, FiniteSets, TLC

Nil == <<>>

Ptr(v) == <<v>>

Deref(p) == p[1]

(***************************************************************************)
(* Bounds of the model.                                                    *)
(***************************************************************************)
\* the longest list of options handed to New
MaxOpts == 2

\* the number of goroutines calling Invoke concurrently on one Invoker
NCalls == 2

(***************************************************************************)
(* Tokens of the JSON texts the model handles.                             *)
(***************************************************************************)
WS == " "

StringTokens ==
  { "\"procedure\"", "\"body\"", "\"error\"", "\"complex\"", "\"Do\"", "\"On\"",
    "\"<\"", "\"\\u003c\"" }

LiteralTokens == { "null", "1" }

IsWS(t) == t = WS

IsString(t) == t \in StringTokens

IsScalar(t) == t \in StringTokens \cup LiteralTokens

\* The Go string a JSON string token decodes to.
Unquote(t) ==
  CASE t = "\"procedure\"" -> "procedure"
    [] t = "\"body\"" -> "body"
    [] t = "\"error\"" -> "error"
    [] t = "\"complex\"" -> "complex"
    [] t = "\"Do\"" -> "Do"
    [] t = "\"On\"" -> "On"
    [] t = "\"<\"" -> "<"
    [] t = "\"\\u003c\"" -> "<"
    [] OTHER -> ""

\* The JSON string token json.Marshal writes for a Go string (HTML escaped).
Quote(s) ==
  CASE s = "procedure" -> "\"procedure\""
    [] s = "body" -> "\"body\""
    [] s = "error" -> "\"error\""
    [] s = "complex" -> "\"complex\""
    [] s = "Do" -> "\"Do\""
    [] s = "On" -> "\"On\""
    [] s = "<" -> "\"\\u003c\""
    [] OTHER -> "\"\""

\* string(b): the Go string holding the bytes of b.
RECURSIVE String(_)
String(b) == IF b = <<>> THEN "" ELSE Head(b) \o String(Tail(b))

(***************************************************************************)
(* Errors.  Every error value is a record of one shape: its dynamic type,  *)
(* its text (Error()), and a status code (0 where the type has none).      *)
(***************************************************************************)
ErrorString(text) == [type |-> "*errors.errorString", text |-> text, StatusCode |-> 0]

SyntaxError == [type |-> "*json.SyntaxError", text |-> "invalid JSON", StatusCode |-> 0]

UnmarshalTypeError ==
  [type |-> "*json.UnmarshalTypeError", text |-> "cannot unmarshal", StatusCode |-> 0]

MarshalerError ==
  [type |-> "*json.MarshalerError", text |-> "error calling MarshalJSON", StatusCode |-> 0]

(***************************************************************************)
(* encoding/json on token sequences.                                       *)
(***************************************************************************)
\* the index of the first non-whitespace token of s at or after i
RECURSIVE SkipWS(_, _)
SkipWS(s, i) == IF i <= Len(s) /\ IsWS(s[i]) THEN SkipWS(s, i + 1) ELSE i

\* ValueEnd(s, i): a JSON value starts at token i (no whitespace before it);
\* the index after its last token, or 0 when no value can be read there.
RECURSIVE ValueEnd(_, _)
RECURSIVE MembersEnd(_, _)
RECURSIVE ElementsEnd(_, _)
ValueEnd(s, i) ==
  IF i > Len(s) THEN 0
  ELSE IF IsScalar(s[i]) THEN i + 1
  ELSE IF s[i] = "{"
    THEN LET j == SkipWS(s, i + 1)
         IN  IF j <= Len(s) /\ s[j] = "}" THEN j + 1 ELSE MembersEnd(s, j)
  ELSE IF s[i] = "["
    THEN LET j == SkipWS(s, i + 1)
         IN  IF j <= Len(s) /\ s[j] = "]" THEN j + 1 ELSE ElementsEnd(s, j)
  ELSE 0

\* j is at the key of an object member; the index after the object's "}".
MembersEnd(s, j) ==
  IF j > Len(s) \/ ~IsString(s[j]) THEN 0
  ELSE LET k == SkipWS(s, j + 1)
       IN  IF k > Len(s) \/ s[k] # ":" THEN 0
           ELSE LET e == ValueEnd(s, SkipWS(s, k + 1))
                    n == SkipWS(s, e)
                IN  IF e = 0 \/ n > Len(s) THEN 0
                    ELSE IF s[n] = "}" THEN n + 1
                    ELSE IF s[n] = "," THEN MembersEnd(s, SkipWS(s, n + 1))
                    ELSE 0

\* j is at an array element; the index after the array's "]".
ElementsEnd(s, j) ==
  LET e == ValueEnd(s, j)
      n == SkipWS(s, e)
  IN  IF e = 0 \/ n > Len(s) THEN 0
      ELSE IF s[n] = "]" THEN n + 1
      ELSE IF s[n] = "," THEN ElementsEnd(s, SkipWS(s, n + 1))
      ELSE 0

\* json.Valid: one value, whitespace around it, nothing else.
Valid(s) ==
  LET e == ValueEnd(s, SkipWS(s, 1))
  IN  e # 0 /\ SkipWS(s, e) = Len(s) + 1

\* json.Compact with escapeHTML, as json.Marshal applies it to the bytes a
\* Marshaler returns: whitespace between tokens dropped, <, > and & escaped.
EscapeHTML(t) == IF t = "\"<\"" THEN "\"\\u003c\"" ELSE t

RECURSIVE Compact(_)
Compact(s) ==
  IF s = <<>> THEN <<>>
  ELSE IF IsWS(Head(s)) THEN Compact(Tail(s))
  ELSE <<EscapeHTML(Head(s))>> \o Compact(Tail(s))

\* The members of the object whose "{" is token i of a valid text, as a
\* sequence of [key, val]: key the decoded name, val the member's raw bytes.
RECURSIVE Members(_, _)
Members(s, j) ==
  IF s[j] = "}" THEN <<>>
  ELSE LET k == SkipWS(s, j + 1)
           v == SkipWS(s, k + 1)
           e == ValueEnd(s, v)
           n == SkipWS(s, e)
           m == [key |-> Unquote(s[j]), val |-> SubSeq(s, v, e - 1)]
       IN  IF s[n] = "," THEN <<m>> \o Members(s, SkipWS(s, n + 1))
           ELSE <<m>>

\* The raw value of the last member named key (encoding/json keeps the last
\* duplicate), as a json.RawMessage: Nil when the object has no such member.
RECURSIVE Field(_, _)
Field(ms, key) ==
  IF ms = <<>> THEN Nil
  ELSE LET rest == Field(Tail(ms), key)
       IN  IF rest # Nil THEN rest
           ELSE IF Head(ms).key = key THEN Ptr(Head(ms).val)
           ELSE Nil

(***************************************************************************)
(* The wire envelopes of the procedure protocol (router.Request and        *)
(* router.Response of the lambda-router package, which the code marshals   *)
(* and unmarshals with encoding/json).                                     *)
(***************************************************************************)
\* MarshalJSON of a json.RawMessage field followed by the encoder's compact:
\* a nil message is written as null, any other must be one valid JSON value.
MarshalRawMessage(m) ==
  IF m = Nil THEN [bytes |-> <<"null">>, err |-> Nil]
  ELSE IF ~Valid(Deref(m)) THEN [bytes |-> <<>>, err |-> Ptr(MarshalerError)]
  ELSE [bytes |-> Compact(Deref(m)), err |-> Nil]

\* The request envelope around the marshaled body b.
RequestBytes(procedure, b) ==
  IF b.err # Nil THEN [bytes |-> Nil, err |-> b.err]
  ELSE [bytes |-> Ptr(<<"{", "\"procedure\"", ":", Quote(procedure), ",",
                        "\"body\"", ":">> \o b.bytes \o <<"}">>),
        err |-> Nil]

\* json.Marshal(router.Request{Procedure: procedure, Body: body})
MarshalRequest(procedure, body) == RequestBytes(procedure, MarshalRawMessage(body))

\* The router.Response decoded from the members ms of a JSON object: Body and
\* Error are RawMessages, each set to the raw bytes of its member (the four
\* bytes null included).
ResponseOf(ms) == [err |-> Nil, Body |-> Field(ms, "body"), Error |-> Field(ms, "error")]

\* The value of valid JSON data starts at token i.
ResponseAt(data, i) ==
  IF data[i] = "null" THEN [err |-> Nil, Body |-> Nil, Error |-> Nil]
  ELSE IF data[i] = "{" THEN ResponseOf(Members(data, SkipWS(data, i + 1)))
  ELSE [err |-> Ptr(UnmarshalTypeError), Body |-> Nil, Error |-> Nil]

\* json.Unmarshal(data, &router.Response{})
UnmarshalResponse(data) ==
  IF ~Valid(data) THEN [err |-> Ptr(SyntaxError), Body |-> Nil, Error |-> Nil]
  ELSE ResponseAt(data, SkipWS(data, 1))

\* One object member decoded into a Go string field named key, acc being the
\* field and the saved error so far: another member and a null leave both, a
\* string sets the field, any other value leaves the field and saves an
\* UnmarshalTypeError unless an error is saved already.
StringMember(m, key, acc) ==
  IF m.key # key \/ m.val = <<"null">> THEN acc
  ELSE IF Len(m.val) = 1 /\ IsString(m.val[1]) THEN [acc EXCEPT !.val = Unquote(m.val[1])]
  ELSE IF acc.err = Nil THEN [acc EXCEPT !.err = Ptr(UnmarshalTypeError)]
  ELSE acc

\* The members ms decoded in their order.
RECURSIVE StringMembers(_, _, _)
StringMembers(ms, key, acc) ==
  IF ms = <<>> THEN acc
  ELSE StringMembers(Tail(ms), key, StringMember(Head(ms), key, acc))

\* The Go string field named key decoded from the members ms of an object:
\* the field's value and the first error json.Unmarshal saved.
StringField(ms, key) == StringMembers(ms, key, [err |-> Nil, val |-> ""])

RequestOf(p, body) == [err |-> p.err, Procedure |-> p.val, Body |-> body]

RequestAt(data, i) ==
  IF data[i] = "null" THEN [err |-> Nil, Procedure |-> "", Body |-> Nil]
  ELSE IF data[i] = "{"
    THEN RequestOf(StringField(Members(data, SkipWS(data, i + 1)), "procedure"),
                   Field(Members(data, SkipWS(data, i + 1)), "body"))
  ELSE [err |-> Ptr(UnmarshalTypeError), Procedure |-> "", Body |-> Nil]

\* json.Unmarshal(data, &router.Request{}) of the dispatcher double.
UnmarshalRequest(data) ==
  IF ~Valid(data) THEN [err |-> Ptr(SyntaxError), Procedure |-> "", Body |-> Nil]
  ELSE RequestAt(data, SkipWS(data, 1))

\* One member of a marshaled struct with omitempty: nothing when m is empty.
OmitEmpty(key, m) ==
  IF m = Nil \/ Deref(m) = <<>> THEN <<>> ELSE <<key, ":">> \o Compact(Deref(m))

JoinMembers(b, e) == b \o (IF b # <<>> /\ e # <<>> THEN <<",">> ELSE <<>>) \o e

\* json.Marshal(&router.Response{Body: body, Error: error}); both fields are
\* omitted when empty.
MarshalResponse(body, error) ==
  <<"{">> \o JoinMembers(OmitEmpty("\"body\"", body), OmitEmpty("\"error\"", error))
    \o <<"}">>

(***************************************************************************)
(* Error unmarshaling functions handed to AsProcedure.  "default" is the   *)
(* function AsProcedure installs for a nil argument; the others are        *)
(* caller-supplied: "string" and "typed" are the two of the tests,         *)
(* "nilOnNull" is a function that reports no error for the JSON null.      *)
(***************************************************************************)
\* The keys of a rendered map in fmt's order (sorted).
KeyOrder == <<"<", "Do", "On", "body", "complex", "error", "procedure">>

\* The elements of the array whose first element starts at token j.
RECURSIVE Elements(_, _)
Elements(s, j) ==
  IF s[j] = "]" THEN <<>>
  ELSE LET e == ValueEnd(s, j)
           n == SkipWS(s, e)
           v == SubSeq(s, j, e - 1)
       IN  IF s[n] = "," THEN <<v>> \o Elements(s, SkipWS(s, n + 1))
           ELSE <<v>>

\* fmt.Sprint of the interface{} value json.Unmarshal decodes v into;
\* v is one valid JSON value without surrounding whitespace.
RECURSIVE Sprint(_)
RECURSIVE SprintMap(_, _, _)
RECURSIVE SprintList(_, _)
Sprint(v) ==
  IF v[1] = "null" THEN "<nil>"
  ELSE IF IsString(v[1]) THEN Unquote(v[1])
  ELSE IF v[1] = "{" THEN "map[" \o SprintMap(Members(v, SkipWS(v, 2)), 1, TRUE) \o "]"
  ELSE IF v[1] = "[" THEN "[" \o SprintList(Elements(v, SkipWS(v, 2)), TRUE) \o "]"
  ELSE v[1]

SprintMap(ms, k, first) ==
  IF k > Len(KeyOrder) THEN ""
  ELSE LET f == Field(ms, KeyOrder[k])
       IN  IF f = Nil THEN SprintMap(ms, k + 1, first)
           ELSE (IF first THEN "" ELSE " ") \o KeyOrder[k] \o ":" \o Sprint(Deref(f))
                  \o SprintMap(ms, k + 1, FALSE)

SprintList(vs, first) ==
  IF vs = <<>> THEN ""
  ELSE (IF first THEN "" ELSE " ") \o Sprint(Head(vs)) \o SprintList(Tail(vs), FALSE)

\* The value of e without the whitespace around it.
Trim(e, i) == SubSeq(e, i, ValueEnd(e, i) - 1)

\* Mutant of DefaultUnmarshalError: the raw bytes are always the text.
DefaultUnmarshalErrorRaw(e) == Ptr(ErrorString(String(e)))

\* The default unmarshalError of AsProcedure.
DefaultUnmarshalError(e) ==
  IF ~Valid(e) THEN Ptr(ErrorString(String(e)))
  ELSE Ptr(ErrorString(Sprint(Trim(e, SkipWS(e, 1)))))

\* The test's typed error: a struct with a field Complex string `json:"complex"`;
\* the record's text holds Complex.
TypedError(complex) == [type |-> "*Error", text |-> complex, StatusCode |-> 0]

TypedOf(complex) ==
  IF complex.err # Nil THEN complex.err ELSE Ptr(TypedError(complex.val))

TypedAt(e, i) ==
  IF e[i] = "null" THEN Ptr(TypedError(""))
  ELSE IF e[i] = "{"
    THEN TypedOf(StringField(Members(e, SkipWS(e, i + 1)), "complex"))
  ELSE Ptr(UnmarshalTypeError)

TypedUnmarshalError(e) ==
  IF ~Valid(e) THEN Ptr(SyntaxError) ELSE TypedAt(e, SkipWS(e, 1))

UnmarshalErrorFuncs == { "default", "string", "typed", "nilOnNull" }

\* unmarshalError(e) for the function named g; the result is an error
\* interface value, Nil when the function reports none.
unmarshalError(g, e) ==
  CASE g = "default" -> DefaultUnmarshalError(e)
    [] g = "string" -> Ptr(ErrorString(String(e)))
    [] g = "typed" -> TypedUnmarshalError(e)
    [] g = "nilOnNull" -> IF e = <<"null">> THEN Nil ELSE Ptr(ErrorString(String(e)))

(***************************************************************************)
(* Envelopes: lambda.InvokeInput and lambda.InvokeOutput.  A *InvokeInput  *)
(* or *InvokeOutput handed between functions is Nil or Ptr(the struct).    *)
(***************************************************************************)
RequestResponse == "RequestResponse"

\* Mutant of InvokeInput: the default request asks for an asynchronous call.
InvokeInputEvent(arn, body) ==
  [FunctionName |-> arn, InvocationType |-> "Event", Payload |-> body]

InvokeInput(arn, body) ==
  [FunctionName |-> arn, InvocationType |-> RequestResponse, Payload |-> body]

InvokeOutput(payload, functionError, statusCode) ==
  [Payload |-> payload, FunctionError |-> functionError, StatusCode |-> statusCode]

\* What a mutator or the transport hands back: the returned pointer, the
\* returned error, and whether the call panicked on a nil dereference.
Returned(ret, err) == [ret |-> ret, err |-> err, panic |-> FALSE]

Panicked == [ret |-> Nil, err |-> Nil, panic |-> TRUE]

\* the bytes of a []byte that may be nil
Bytes(payload) == IF payload = Nil THEN <<>> ELSE Deref(payload)

(***************************************************************************)
(* Mutators.  An input mutator is [kind, procedure], an output mutator     *)
(* [kind, g].  Kind "proc" is the closure AsProcedure installs; the other  *)
(* kinds are mutators a caller registers through an Option of its own:     *)
(* "fail" returns an error, "array" wraps the payload in a JSON array in   *)
(* place, "nil" returns a nil envelope and a nil error.                    *)
(***************************************************************************)
InputMutatorFailed == ErrorString("input mutator failed")

OutputMutatorFailed == ErrorString("output mutator failed")

\* Mutant of InputMarshaled: the mutator hands back a new request that
\* holds the envelope and nothing else.
InputMarshaledAlone(input, r) ==
  IF r.err # Nil THEN Returned(Nil, r.err)
  ELSE Returned(Ptr([FunctionName |-> "", InvocationType |-> "", Payload |-> r.bytes]), Nil)

\* The end of the input mutator, r being what json.Marshal returned.
InputMarshaled(input, r) ==
  IF r.err # Nil THEN Returned(Nil, r.err)
  ELSE Returned(Ptr([Deref(input) EXCEPT !.Payload = r.bytes]), Nil)

\* Mutant of AsProcedureInput: the envelope is built without the payload.
AsProcedureInputNoBody(procedure, input) ==
  IF input = Nil THEN Panicked
  ELSE InputMarshaled(input, MarshalRequest(procedure, Nil))

\* The input mutator of AsProcedure(procedure, _).
AsProcedureInput(procedure, input) ==
  IF input = Nil THEN Panicked
  ELSE InputMarshaled(input, MarshalRequest(procedure, Deref(input).Payload))

\* Mutant of OutputUnmarshaled: a payload that does not parse is let through.
OutputUnmarshaledLenient(g, output, rsp) ==
  IF rsp.err # Nil THEN Returned(output, Nil)
  ELSE IF rsp.Error = Nil
    THEN Returned(Ptr([Deref(output) EXCEPT !.Payload = rsp.Body]), Nil)
  ELSE Returned(Nil, unmarshalError(g, Deref(rsp.Error)))

\* The end of the output mutator, rsp being what json.Unmarshal decoded.
OutputUnmarshaled(g, output, rsp) ==
  IF rsp.err # Nil THEN Returned(Nil, rsp.err)
  ELSE IF rsp.Error = Nil
    THEN Returned(Ptr([Deref(output) EXCEPT !.Payload = rsp.Body]), Nil)
  ELSE Returned(Nil, unmarshalError(g, Deref(rsp.Error)))

\* The output mutator of AsProcedure(_, g).
AsProcedureOutput(g, output) ==
  IF output = Nil THEN Panicked
  ELSE IF Deref(output).Payload = Nil THEN Returned(output, Nil)
  ELSE OutputUnmarshaled(g, output, UnmarshalResponse(Deref(Deref(output).Payload)))

\* A caller's mutator wrapping the payload of either envelope in an array.
ArrayMutator(envelope) ==
  IF envelope = Nil THEN Panicked
  ELSE Returned(Ptr([Deref(envelope) EXCEPT
                       !.Payload = Ptr(<<"[">> \o Bytes(@) \o <<"]">>)]), Nil)

\* mutate(input) for the input mutator m
InputMutate(m, input) ==
  CASE m.kind = "proc" -> AsProcedureInput(m.procedure, input)
    [] m.kind = "fail" -> Returned(Nil, Ptr(InputMutatorFailed))
    [] m.kind = "array" -> ArrayMutator(input)
    [] m.kind = "nil" -> Returned(Nil, Nil)

\* mutate(output) for the output mutator m
OutputMutate(m, output) ==
  CASE m.kind = "proc" -> AsProcedureOutput(m.g, output)
    [] m.kind = "fail" -> Returned(Nil, Ptr(OutputMutatorFailed))
    [] m.kind = "array" -> ArrayMutator(output)
    [] m.kind = "nil" -> Returned(Nil, Nil)

(***************************************************************************)
(* Options and New.                                                        *)
(***************************************************************************)
Procedures == { "Do", "On" }

UserMutatorKinds == { "fail", "array", "nil" }

\* AsProcedure(procedure, unmarshalError) as an option value
AsProcedureOption(procedure, g) ==
  [opt |-> "AsProcedure", procedure |-> procedure, g |-> g, kind |-> "proc"]

\* a caller's option appending one mutator of the kind to one of the lists
UserOption(list, kind) == [opt |-> list, procedure |-> "", g |-> "", kind |-> kind]

Options ==
  { AsProcedureOption(p, g) : p \in Procedures, g \in UnmarshalErrorFuncs }
    \cup { UserOption(l, k) : l \in { "InputMutators", "OutputMutators" },
                              k \in UserMutatorKinds }

\* Mutant of AsProcedure: the two mutators are put at the head of the lists.
AsProcedurePrepends(o, i) ==
  [i EXCEPT !.InputMutators = <<[kind |-> "proc", procedure |-> o.procedure]>> \o @,
            !.OutputMutators = <<[kind |-> "proc", g |-> o.g]>> \o @]

\* The function AsProcedure returns, applied to the Invoker i.
AsProcedure(o, i) ==
  [i EXCEPT !.InputMutators = Append(@, [kind |-> "proc", procedure |-> o.procedure]),
            !.OutputMutators = Append(@, [kind |-> "proc", g |-> o.g])]

\* opt(invoker)
ApplyOption(o, i) ==
  CASE o.opt = "AsProcedure" -> AsProcedure(o, i)
    [] o.opt = "InputMutators" ->
         [i EXCEPT !.InputMutators = Append(@, [kind |-> o.kind, procedure |-> ""])]
    [] o.opt = "OutputMutators" ->
         [i EXCEPT !.OutputMutators = Append(@, [kind |-> o.kind, g |-> ""])]

RECURSIVE ApplyOptions(_, _)
ApplyOptions(opts, i) ==
  IF opts = <<>> THEN i ELSE ApplyOptions(Tail(opts), ApplyOption(Head(opts), i))

New(li, arn, opts) ==
  ApplyOptions(opts, [li |-> li, arn |-> arn,
                      InputMutators |-> <<>>, OutputMutators |-> <<>>])

(***************************************************************************)
(* Transport doubles (LambdaInvoker implementations), each a deterministic *)
(* function of the request: "fixed" reads the payload of the request and   *)
(* answers with one response, "failed" answers with one response carrying  *)
(* a FunctionError without looking at the request, "echo" copies the       *)
(* request payload into the response, "fail" returns a transport error,    *)
(* "router" is the dispatcher of the tests: it unmarshals the request      *)
(* envelope, routes by its procedure and marshals the handler's response   *)
(* envelope, "nil" returns neither a response nor an error.  A request for *)
(* a procedure that is not routed is modelled as a transport error.        *)
(***************************************************************************)
TransportError == ErrorString("transport failed")

RouteNotFound == ErrorString("route not found")

\* what the handler routed as "Do" returns, and the marshaled error of the
\* handler routed as "On"
DoResult == <<"{", "\"complex\"", ":", "1", "}">>

OnError == <<"{", "\"complex\"", ":", "\"error\"", "}">>

NoOutput == InvokeOutput(Nil, Nil, Nil)

\* r.Handle(ctx, *req) and the marshaling of its response.
RouterHandle(req) ==
  IF req.err # Nil THEN Returned(Nil, req.err)
  ELSE IF req.Procedure = "Do"
    THEN Returned(Ptr(InvokeOutput(Ptr(MarshalResponse(Ptr(DoResult), Nil)), Nil, Nil)), Nil)
  ELSE IF req.Procedure = "On"
    THEN Returned(Ptr(InvokeOutput(Ptr(MarshalResponse(Nil, Ptr(OnError))), Nil, Nil)), Nil)
  ELSE Returned(Nil, Ptr(RouteNotFound))

RouterInvoke(input) ==
  IF input = Nil THEN Panicked
  ELSE RouterHandle(UnmarshalRequest(Bytes(Deref(input).Payload)))

\* The double of TestInvoke: it reads the request's payload (a nil request
\* is a nil dereference) and returns its response.
FixedInvoke(li, input) ==
  IF input = Nil THEN Panicked ELSE Returned(Ptr(li.out), Nil)

\* The double of TestInvokeWithError: it returns its response, which carries
\* a FunctionError, without reading the request.
FailedInvoke(li, input) == Returned(Ptr(li.out), Nil)

\* li.InvokeWithContext(ctx, input)
InvokeWithContext(li, input) ==
  CASE li.kind = "fixed" -> FixedInvoke(li, input)
    [] li.kind = "failed" -> FailedInvoke(li, input)
    [] li.kind = "fail" -> Returned(Nil, Ptr(TransportError))
    [] li.kind = "echo" ->
         IF input = Nil THEN Panicked
         ELSE Returned(Ptr(InvokeOutput(Deref(input).Payload, Nil, Nil)), Nil)
    [] li.kind = "router" -> RouterInvoke(input)
    [] li.kind = "nil" -> Returned(Nil, Nil)

(***************************************************************************)
(* Invoke as a function of the Invoker and the body: the call run alone.   *)
(* The result holds the returned payload and error, whether the call       *)
(* panicked, and the request the transport received (Nil when the          *)
(* transport was not called, else Ptr of the pointer it was handed).       *)
(***************************************************************************)
InvokeReturn(payload, err, sent) ==
  [payload |-> payload, err |-> err, panic |-> FALSE, sent |-> sent]

InvokePanic(sent) == [payload |-> Nil, err |-> Nil, panic |-> TRUE, sent |-> sent]

RECURSIVE RunInputMutators(_, _)
RECURSIVE NextInputMutator(_, _)
RunInputMutators(ms, input) ==
  IF ms = <<>> THEN Returned(input, Nil)
  ELSE NextInputMutator(Tail(ms), InputMutate(Head(ms), input))

NextInputMutator(ms, r) ==
  IF r.panic \/ r.err # Nil THEN r ELSE RunInputMutators(ms, r.ret)

RECURSIVE RunOutputMutators(_, _)
RECURSIVE NextOutputMutator(_, _)
RunOutputMutators(ms, output) ==
  IF ms = <<>> THEN Returned(output, Nil)
  ELSE NextOutputMutator(Tail(ms), OutputMutate(Head(ms), output))

NextOutputMutator(ms, r) ==
  IF r.panic \/ r.err # Nil THEN r ELSE RunOutputMutators(ms, r.ret)

\* The Error Invoke builds for a FunctionError.
InvokeError(message, statusCode) ==
  [type |-> "*invoker.Error", text |-> message, StatusCode |-> statusCode]

\* Mutant of StatusCodeOf: an absent status code reported as 0.
StatusCodeOrZero(output) ==
  IF output.StatusCode # Nil THEN Deref(output.StatusCode) ELSE 0

StatusCodeOf(output) ==
  IF output.StatusCode # Nil THEN Deref(output.StatusCode) ELSE -1

\* Mutant of CheckFunctionError: the success return loses the payload.
CheckFunctionErrorNoPayload(output) ==
  IF output = Nil THEN Panicked
  ELSE IF Deref(output).FunctionError # Nil
    THEN Returned(Nil, Ptr(InvokeError(Deref(Deref(output).FunctionError),
                                       StatusCodeOf(Deref(output)))))
  ELSE Returned(Nil, Nil)

\* Mutant of CheckFunctionError: the error return also hands the payload back.
CheckFunctionErrorWithPayload(output) ==
  IF output = Nil THEN Panicked
  ELSE IF Deref(output).FunctionError # Nil
    THEN Returned(Deref(output).Payload,
                  Ptr(InvokeError(Deref(Deref(output).FunctionError),
                                  StatusCodeOf(Deref(output)))))
  ELSE Returned(Deref(output).Payload, Nil)

\* The FunctionError check and the return that ends Invoke.
CheckFunctionError(output) ==
  IF output = Nil THEN Panicked
  ELSE IF Deref(output).FunctionError # Nil
    THEN Returned(Nil, Ptr(InvokeError(Deref(Deref(output).FunctionError),
                                       StatusCodeOf(Deref(output)))))
  ELSE Returned(Deref(output).Payload, Nil)

AfterCheck(sent, r) ==
  IF r.panic THEN InvokePanic(sent) ELSE InvokeReturn(r.ret, r.err, sent)

AfterOutputMutators(sent, out) ==
  IF out.panic THEN InvokePanic(sent)
  ELSE IF out.err # Nil THEN InvokeReturn(Nil, out.err, sent)
  ELSE AfterCheck(sent, CheckFunctionError(out.ret))

AfterTransport(i, sent, t) ==
  IF t.panic THEN InvokePanic(sent)
  ELSE IF t.err # Nil THEN InvokeReturn(Nil, t.err, sent)
  ELSE AfterOutputMutators(sent, RunOutputMutators(i.OutputMutators, t.ret))

AfterInputMutators(i, in) ==
  IF in.panic THEN InvokePanic(Nil)
  ELSE IF in.err # Nil THEN InvokeReturn(Nil, in.err, Nil)
  ELSE AfterTransport(i, Ptr(in.ret), InvokeWithContext(i.li, in.ret))

Invoke(i, body) ==
  AfterInputMutators(i, RunInputMutators(i.InputMutators, Ptr(InvokeInput(i.arn, body))))

(***************************************************************************)
(* The state machine.  One Invoker, built by New, is called by the         *)
(* goroutines in callers; each takes the steps of Invoke one at a time.    *)
(* The envelopes live on a heap: inputs[a] and outputs[a] are the structs  *)
(* at address a, and a call holds pointers (Nil or Ptr(address)) to them.  *)
(***************************************************************************)
VARIABLES
  invoker,   \* the *Invoker: [li, arn, InputMutators, OutputMutators]
  callers,   \* the goroutines that call Invoke
  call,      \* per goroutine: its position in Invoke, its locals, its history
  inputs,    \* heap of lambda.InvokeInput structs
  outputs    \* heap of lambda.InvokeOutput structs

vars == <<invoker, callers, call, inputs, outputs>>

Calls == 1 .. NCalls

Arn == "test-arn"

\* The payloads handed to Invoke: nil, empty, a compact JSON value, a JSON
\* value with whitespace and a character json.Marshal escapes, and bytes
\* that are not JSON.
Bodies ==
  { Nil, Ptr(<<>>), Ptr(<<"1">>), Ptr(<<"[", " ", "\"<\"", "]">>), Ptr(<<"x">>) }

\* The responses of the "fixed" transports.
FixedOutputs ==
  { InvokeOutput(Nil, Nil, Nil),
    InvokeOutput(Ptr(<<>>), Nil, Nil),
    InvokeOutput(Ptr(<<"null">>), Nil, Nil),
    InvokeOutput(Ptr(<<"{", "}">>), Nil, Nil),
    InvokeOutput(Ptr(<<"{", "\"body\"", ":", " ", "1", " ", "}">>), Nil, Nil),
    InvokeOutput(Ptr(<<"{", "\"error\"", ":", "null", "}">>), Nil, Nil),
    InvokeOutput(Ptr(<<"{", "\"error\"", ":", "{", "\"complex\"", ":", "\"error\"", "}",
                       ",", "\"body\"", ":", "1", "}">>), Nil, Nil),
    InvokeOutput(Ptr(<<"{", "\"error\"", ":", "{", "\"complex\"", ":", "1", ",",
                       "\"complex\"", ":", "\"error\"", "}", "}">>), Nil, Nil),
    InvokeOutput(Ptr(<<"x">>), Nil, Nil),
    InvokeOutput(Ptr(<<"1">>), Nil, Nil) }

\* The responses of the "failed" transports.
FailedOutputs ==
  { InvokeOutput(Nil, Ptr("invocation failed"), Ptr(401)),
    InvokeOutput(Ptr(<<"{", "\"body\"", ":", "1", "}">>), Ptr("invocation failed"), Nil) }

Transports ==
  { [kind |-> "fixed", out |-> o] : o \in FixedOutputs }
    \cup { [kind |-> "failed", out |-> o] : o \in FailedOutputs }
    \cup { [kind |-> k, out |-> NoOutput] : k \in { "echo", "fail", "router", "nil" } }

OptionLists == UNION { [1 .. n -> Options] : n \in 0 .. MaxOpts }

ZeroInput == [FunctionName |-> "", InvocationType |-> "", Payload |-> Nil]

IdleCall ==
  [pc |-> "idle", body |-> Nil, k |-> 0, input |-> Nil, output |-> Nil,
   payload |-> Nil, err |-> Nil,
   inLog |-> <<>>, outLog |-> <<>>, sent |-> Nil, got |-> Nil, checked |-> FALSE,
   transports |-> 0]

InitCalls ==
  /\ call = [c \in Calls |-> IdleCall]
  /\ inputs = [a \in Calls |-> ZeroInput]
  /\ outputs = [a \in Calls |-> NoOutput]

Init ==
  /\ invoker \in { New(li, Arn, opts) : li \in Transports, opts \in OptionLists }
  /\ callers = { 1 }
  /\ InitCalls

\* Mutant of NewInput: one request envelope kept for all calls.
SharedInput(c) == 1

\* The address of the envelope a call allocates.
NewInput(c) == c

NewOutput(c) == c

\* The struct a pointer refers to on a heap, as a pointer to its value.
Load(heap, p) == IF p = Nil THEN Nil ELSE Ptr(heap[Deref(p)])

\* One entry of a call's log of mutator applications.
Applied(arg, r) == [arg |-> arg, ret |-> r.ret, err |-> r.err]

\* Invoke, lines 59-63: the default request.
Call(c) ==
  /\ c \in callers
  /\ call[c].pc = "idle"
  /\ \E body \in Bodies :
       /\ inputs' = [inputs EXCEPT ![NewInput(c)] = InvokeInput(invoker.arn, body)]
       /\ call' = [call EXCEPT ![c] = [@ EXCEPT !.pc = "input", !.body = body, !.k = 1,
                                                  !.input = Ptr(NewInput(c))]]
  /\ UNCHANGED <<invoker, callers, outputs>>

\* The input mutator applied to arg has handed back r.
InputMutated(c, arg, r) ==
  IF r.panic
    THEN /\ call' = [call EXCEPT ![c] = [@ EXCEPT !.pc = "panic",
                                                   !.inLog = Append(@, Applied(arg, r))]]
         /\ UNCHANGED inputs
  ELSE IF r.err # Nil
    THEN /\ call' = [call EXCEPT ![c] = [@ EXCEPT !.pc = "done",
                                                   !.inLog = Append(@, Applied(arg, r)),
                                                   !.payload = Nil, !.err = r.err]]
         /\ UNCHANGED inputs
  ELSE IF r.ret = Nil
    THEN /\ call' = [call EXCEPT ![c] = [@ EXCEPT !.k = @ + 1,
                                                   !.inLog = Append(@, Applied(arg, r)),
                                                   !.input = Nil]]
         /\ UNCHANGED inputs
  ELSE /\ call' = [call EXCEPT ![c] = [@ EXCEPT !.k = @ + 1,
                                                 !.inLog = Append(@, Applied(arg, r))]]
       /\ inputs' = [inputs EXCEPT ![Deref(call[c].input)] = Deref(r.ret)]

\* Mutant of StepInputMutator: the list is walked from its end.
StepInputMutatorReversed(c) ==
  /\ call[c].pc = "input"
  /\ call[c].k <= Len(invoker.InputMutators)
  /\ InputMutated(c, Load(inputs, call[c].input),
                  InputMutate(invoker.InputMutators[Len(invoker.InputMutators) + 1 - call[c].k],
                              Load(inputs, call[c].input)))
  /\ UNCHANGED <<callers, outputs>>

\* Invoke, lines 64-70: one turn of the input mutator loop.
StepInputMutator(c) ==
  /\ call[c].pc = "input"
  /\ call[c].k <= Len(invoker.InputMutators)
  /\ InputMutated(c, Load(inputs, call[c].input),
                  InputMutate(invoker.InputMutators[call[c].k],
                              Load(inputs, call[c].input)))
  /\ UNCHANGED <<callers, outputs>>

\* Mutant of InputMutator: the mutator just applied is dropped from the list.
InputMutatorConsumed(c) ==
  /\ StepInputMutator(c)
  /\ invoker' = [invoker EXCEPT !.InputMutators = Tail(@)]

InputMutator(c) == StepInputMutator(c) /\ UNCHANGED invoker

\* Mutant of Transported: the transport's error is not looked at, and the
\* call goes on to the output mutators with the (nil) response.
TransportedUnchecked(c, arg, r) ==
  IF r.panic
    THEN /\ call' = [call EXCEPT ![c] = [@ EXCEPT !.pc = "panic", !.sent = Ptr(arg),
                                                   !.transports = @ + 1]]
         /\ UNCHANGED outputs
  ELSE IF r.ret = Nil
    THEN /\ call' = [call EXCEPT ![c] = [@ EXCEPT !.pc = "output", !.k = 1,
                                                   !.sent = Ptr(arg), !.transports = @ + 1,
                                                   !.got = Ptr([out |-> r.ret, err |-> r.err]),
                                                   !.output = Nil]]
         /\ UNCHANGED outputs
  ELSE /\ call' = [call EXCEPT ![c] = [@ EXCEPT !.pc = "output", !.k = 1,
                                                 !.sent = Ptr(arg), !.transports = @ + 1,
                                                 !.got = Ptr([out |-> r.ret, err |-> r.err]),
                                                 !.output = Ptr(NewOutput(c))]]
       /\ outputs' = [outputs EXCEPT ![NewOutput(c)] = Deref(r.ret)]

\* Mutant of Transported: after a transport error the call is made again.
TransportedRetried(c, arg, r) ==
  IF r.panic
    THEN /\ call' = [call EXCEPT ![c] = [@ EXCEPT !.pc = "panic", !.sent = Ptr(arg),
                                                   !.transports = @ + 1]]
         /\ UNCHANGED outputs
  ELSE IF r.err # Nil /\ call[c].transports = 0
    THEN /\ call' = [call EXCEPT ![c] = [@ EXCEPT !.sent = Ptr(arg), !.transports = @ + 1]]
         /\ UNCHANGED outputs
  ELSE IF r.err # Nil
    THEN /\ call' = [call EXCEPT ![c] = [@ EXCEPT !.pc = "done", !.sent = Ptr(arg),
                                                   !.transports = @ + 1,
                                                   !.got = Ptr([out |-> r.ret, err |-> r.err]),
                                                   !.payload = Nil, !.err = r.err]]
         /\ UNCHANGED outputs
  ELSE IF r.ret = Nil
    THEN /\ call' = [call EXCEPT ![c] = [@ EXCEPT !.pc = "output", !.k = 1,
                                                   !.sent = Ptr(arg), !.transports = @ + 1,
                                                   !.got = Ptr([out |-> r.ret, err |-> r.err]),
                                                   !.output = Nil]]
         /\ UNCHANGED outputs
  ELSE /\ call' = [call EXCEPT ![c] = [@ EXCEPT !.pc = "output", !.k = 1,
                                                 !.sent = Ptr(arg), !.transports = @ + 1,
                                                 !.got = Ptr([out |-> r.ret, err |-> r.err]),
                                                 !.output = Ptr(NewOutput(c))]]
       /\ outputs' = [outputs EXCEPT ![NewOutput(c)] = Deref(r.ret)]

\* The transport called with arg has handed back r.
Transported(c, arg, r) ==
  IF r.panic
    THEN /\ call' = [call EXCEPT ![c] = [@ EXCEPT !.pc = "panic", !.sent = Ptr(arg),
                                                   !.transports = @ + 1]]
         /\ UNCHANGED outputs
  ELSE IF r.err # Nil
    THEN /\ call' = [call EXCEPT ![c] = [@ EXCEPT !.pc = "done", !.sent = Ptr(arg),
                                                   !.transports = @ + 1,
                                                   !.got = Ptr([out |-> r.ret, err |-> r.err]),
                                                   !.payload = Nil, !.err = r.err]]
         /\ UNCHANGED outputs
  ELSE IF r.ret = Nil
    THEN /\ call' = [call EXCEPT ![c] = [@ EXCEPT !.pc = "output", !.k = 1,
                                                   !.sent = Ptr(arg), !.transports = @ + 1,
                                                   !.got = Ptr([out |-> r.ret, err |-> r.err]),
                                                   !.output = Nil]]
         /\ UNCHANGED outputs
  ELSE /\ call' = [call EXCEPT ![c] = [@ EXCEPT !.pc = "output", !.k = 1,
                                                 !.sent = Ptr(arg), !.transports = @ + 1,
                                                 !.got = Ptr([out |-> r.ret, err |-> r.err]),
                                                 !.output = Ptr(NewOutput(c))]]
       /\ outputs' = [outputs EXCEPT ![NewOutput(c)] = Deref(r.ret)]

\* Invoke, lines 71-74: the transport call.
StepTransport(c) ==
  /\ call[c].pc = "input"
  /\ call[c].k > Len(invoker.InputMutators)
  /\ Transported(c, Load(inputs, call[c].input),
                 InvokeWithContext(invoker.li, Load(inputs, call[c].input)))
  /\ UNCHANGED <<callers, inputs>>

Transport(c) == StepTransport(c) /\ UNCHANGED invoker

\* Mutant of OutputMutated: a failing mutator ends the loop, not the call.
OutputMutatedBreaks(c, arg, r) ==
  IF r.panic
    THEN /\ call' = [call EXCEPT ![c] = [@ EXCEPT !.pc = "panic",
                                                   !.outLog = Append(@, Applied(arg, r))]]
         /\ UNCHANGED outputs
  ELSE IF r.err # Nil
    THEN /\ call' = [call EXCEPT ![c] = [@ EXCEPT !.k = Len(invoker.OutputMutators) + 1,
                                                   !.outLog = Append(@, Applied(arg, r))]]
         /\ UNCHANGED outputs
  ELSE IF r.ret = Nil
    THEN /\ call' = [call EXCEPT ![c] = [@ EXCEPT !.k = @ + 1,
                                                   !.outLog = Append(@, Applied(arg, r)),
                                                   !.output = Nil]]
         /\ UNCHANGED outputs
  ELSE /\ call' = [call EXCEPT ![c] = [@ EXCEPT !.k = @ + 1,
                                                 !.outLog = Append(@, Applied(arg, r))]]
       /\ outputs' = [outputs EXCEPT ![Deref(call[c].output)] = Deref(r.ret)]

\* The output mutator applied to arg has handed back r.
OutputMutated(c, arg, r) ==
  IF r.panic
    THEN /\ call' = [call EXCEPT ![c] = [@ EXCEPT !.pc = "panic",
                                                   !.outLog = Append(@, Applied(arg, r))]]
         /\ UNCHANGED outputs
  ELSE IF r.err # Nil
    THEN /\ call' = [call EXCEPT ![c] = [@ EXCEPT !.pc = "done",
                                                   !.outLog = Append(@, Applied(arg, r)),
                                                   !.payload = Nil, !.err = r.err]]
         /\ UNCHANGED outputs
  ELSE IF r.ret = Nil
    THEN /\ call' = [call EXCEPT ![c] = [@ EXCEPT !.k = @ + 1,
                                                   !.outLog = Append(@, Applied(arg, r)),
                                                   !.output = Nil]]
         /\ UNCHANGED outputs
  ELSE /\ call' = [call EXCEPT ![c] = [@ EXCEPT !.k = @ + 1,
                                                 !.outLog = Append(@, Applied(arg, r))]]
       /\ outputs' = [outputs EXCEPT ![Deref(call[c].output)] = Deref(r.ret)]

\* Invoke, lines 75-81: one turn of the output mutator loop.
StepOutputMutator(c) ==
  /\ call[c].pc = "output"
  /\ call[c].k <= Len(invoker.OutputMutators)
  /\ OutputMutated(c, Load(outputs, call[c].output),
                   OutputMutate(invoker.OutputMutators[call[c].k],
                                Load(outputs, call[c].output)))
  /\ UNCHANGED <<callers, inputs>>

\* Mutant of OutputMutator: the mutator just applied is dropped from the list.
OutputMutatorConsumed(c) ==
  /\ StepOutputMutator(c)
  /\ invoker' = [invoker EXCEPT !.OutputMutators = Tail(@)]

OutputMutator(c) == StepOutputMutator(c) /\ UNCHANGED invoker

\* The FunctionError check has handed back r.
Checked(c, r) ==
  IF r.panic
    THEN call' = [call EXCEPT ![c] = [@ EXCEPT !.pc = "panic", !.checked = TRUE]]
  ELSE call' = [call EXCEPT ![c] = [@ EXCEPT !.pc = "done", !.checked = TRUE,
                                              !.payload = r.ret, !.err = r.err]]

\* Invoke, lines 82-89: the FunctionError check and the return.
StepCheck(c) ==
  /\ call[c].pc = "output"
  /\ call[c].k > Len(invoker.OutputMutators)
  /\ Checked(c, CheckFunctionError(Load(outputs, call[c].output)))
  /\ UNCHANGED <<callers, inputs, outputs>>

Check(c) == StepCheck(c) /\ UNCHANGED invoker

\* The caller has its result; its envelopes are garbage, and the goroutine
\* may call Invoke again.
Return(c) ==
  /\ call[c].pc = "done"
  /\ call' = [call EXCEPT ![c] = IdleCall]
  /\ inputs' = [inputs EXCEPT ![NewInput(c)] = ZeroInput]
  /\ outputs' = [outputs EXCEPT ![NewOutput(c)] = NoOutput]
  /\ UNCHANGED <<invoker, callers>>

Next ==
  \E c \in Calls :
    \/ Call(c)
    \/ InputMutator(c)
    \/ Transport(c)
    \/ OutputMutator(c)
    \/ Check(c)
    \/ Return(c)

Spec == Init /\ [][Next]_vars

(***************************************************************************)
(* Concurrent callers: every goroutine of Calls calls Invoke on the one    *)
(* Invoker.  The Invokers are those whose input mutators rewrite the       *)
(* request in place, behind transports that answer from the request.       *)
(***************************************************************************)
ConcOptionLists ==
  { <<>>,
    <<AsProcedureOption("Do", "typed")>>,
    <<UserOption("InputMutators", "array"), AsProcedureOption("On", "typed")>> }

ConcTransports == { [kind |-> k, out |-> NoOutput] : k \in { "echo", "router" } }

InitConc ==
  /\ invoker \in { New(li, Arn, opts) : li \in ConcTransports, opts \in ConcOptionLists }
  /\ callers = Calls
  /\ InitCalls

SpecConc == InitConc /\ [][Next]_vars

(***************************************************************************)
(* Vocabulary of the properties.                                           *)
(***************************************************************************)
\* the call has returned to its caller
Done(c) == call[c].pc = "done"

\* the call is over: it returned or it panicked
Ended(c) == call[c].pc \in { "done", "panic" }

NoMutators == invoker.InputMutators = <<>> /\ invoker.OutputMutators = <<>>

\* the transport was called and returned a response (no transport error)
TransportSucceeded(c) == call[c].got # Nil /\ Deref(call[c].got).err = Nil

TransportFailed(c) == call[c].got # Nil /\ Deref(call[c].got).err # Nil

\* the *InvokeOutput the transport returned
Response(c) == Deref(call[c].got).out

\* the default request of the call
DefaultRequest(c) == Ptr(InvokeInput(invoker.arn, call[c].body))

\* the response after the output mutators applied so far
LastOutput(c) ==
  IF call[c].outLog = <<>> THEN Response(c)
  ELSE call[c].outLog[Len(call[c].outLog)].ret

\* the request after the input mutators applied so far
LastInput(c) ==
  IF call[c].inLog = <<>> THEN DefaultRequest(c)
  ELSE call[c].inLog[Len(call[c].inLog)].ret

AllOutputMutatorsSucceeded(c) ==
  /\ Len(call[c].outLog) = Len(invoker.OutputMutators)
  /\ \A j \in 1 .. Len(call[c].outLog) : call[c].outLog[j].err = Nil

\* C1: with no mutators, when the transport returns a response whose payload
\* is the payload P handed to Invoke and which has no FunctionError, Invoke
\* returns exactly P and a nil error.
C1_EchoedPayloadReturned ==
  \A c \in Calls :
    ( /\ NoMutators
      /\ Ended(c)
      /\ TransportSucceeded(c)
      /\ Response(c) # Nil
      /\ Deref(Response(c)).FunctionError = Nil
      /\ Deref(Response(c)).Payload = call[c].body )
    => (Done(c) /\ call[c].payload = call[c].body /\ call[c].err = Nil)

C1_Witness ==
  /\ NoMutators
  /\ invoker.li.kind = "echo"
  /\ Done(1)
  /\ call[1].body = Ptr(<<"[", " ", "\"<\"", "]">>)
  /\ call[1].payload = call[1].body
  /\ call[1].err = Nil

\* C2: when the transport succeeds, every output mutator succeeds and the
\* resulting response has a FunctionError M, Invoke returns a nil payload and
\* an *Error with text M and the response's StatusCode, -1 when it has none.
C2_FunctionErrorReturned ==
  \A c \in Calls :
    ( /\ Ended(c)
      /\ TransportSucceeded(c)
      /\ AllOutputMutatorsSucceeded(c)
      /\ LastOutput(c) # Nil
      /\ Deref(LastOutput(c)).FunctionError # Nil )
    => /\ Done(c)
       /\ call[c].payload = Nil
       /\ call[c].err # Nil
       /\ Deref(call[c].err).type = "*invoker.Error"
       /\ Deref(call[c].err).text = Deref(Deref(LastOutput(c)).FunctionError)
       /\ Deref(call[c].err).StatusCode =
            (IF Deref(LastOutput(c)).StatusCode = Nil THEN -1
             ELSE Deref(Deref(LastOutput(c)).StatusCode))

C2_Witness ==
  /\ Done(1)
  /\ Len(invoker.OutputMutators) = 1
  /\ invoker.OutputMutators[1].kind = "proc"
  /\ AllOutputMutatorsSucceeded(1)
  /\ Deref(Response(1)).Payload # Nil
  /\ call[1].payload = Nil
  /\ call[1].err = Ptr(InvokeError("invocation failed", -1))

\* C3: input mutators run in registration order, each on the envelope the
\* previous one returned (the first on the default request); the transport
\* receives what the last one returned; when one fails Invoke returns its
\* error with a nil payload and nothing after it runs.
C3_InputMutatorsInOrder ==
  \A c \in Calls :
    /\ Len(call[c].inLog) <= Len(invoker.InputMutators)
    /\ \A j \in 1 .. Len(call[c].inLog) :
         /\ call[c].inLog[j].arg =
              (IF j = 1 THEN DefaultRequest(c) ELSE call[c].inLog[j - 1].ret)
         /\ call[c].inLog[j].ret = InputMutate(invoker.InputMutators[j], call[c].inLog[j].arg).ret
         /\ call[c].inLog[j].err = InputMutate(invoker.InputMutators[j], call[c].inLog[j].arg).err
         /\ call[c].inLog[j].err # Nil =>
              /\ Done(c)
              /\ call[c].err = call[c].inLog[j].err
              /\ call[c].payload = Nil
              /\ Len(call[c].inLog) = j
              /\ call[c].sent = Nil
              /\ call[c].got = Nil
              /\ call[c].outLog = <<>>
              /\ ~call[c].checked
    /\ call[c].sent # Nil =>
         /\ Len(call[c].inLog) = Len(invoker.InputMutators)
         /\ call[c].sent = Ptr(LastInput(c))

C3_Witness ==
  /\ Len(invoker.InputMutators) = 2
  /\ invoker.InputMutators[1].kind = "array"
  /\ invoker.InputMutators[2].kind = "proc"
  /\ call[1].body = Ptr(<<"1">>)
  /\ call[1].sent =
       Ptr(Ptr(InvokeInput(Arn, Ptr(<<"{", "\"procedure\"", ":", "\"Do\"", ",", "\"body\"", ":",
                                      "[", "1", "]", "}">>))))

\* C4: when the transport call fails, Invoke returns that error with a nil
\* payload; no output mutator runs and no FunctionError check is made.
C4_TransportErrorReturned ==
  \A c \in Calls :
    TransportFailed(c) =>
      /\ Done(c)
      /\ call[c].err = Deref(call[c].got).err
      /\ call[c].payload = Nil
      /\ call[c].outLog = <<>>
      /\ ~call[c].checked

C4_Witness ==
  /\ invoker.li.kind = "fail"
  /\ Len(invoker.OutputMutators) = 2
  /\ Done(1)
  /\ call[1].err = Ptr(TransportError)

\* C5: output mutators run only after a successful transport call, in
\* registration order, each on the response the previous one returned (the
\* first on the transport's); when one fails Invoke returns its error with a
\* nil payload, no later output mutator runs and no FunctionError check is made.
C5_OutputMutatorsInOrder ==
  \A c \in Calls :
    /\ Len(call[c].outLog) <= Len(invoker.OutputMutators)
    /\ call[c].outLog # <<>> => TransportSucceeded(c)
    /\ \A j \in 1 .. Len(call[c].outLog) :
         /\ call[c].outLog[j].arg =
              (IF j = 1 THEN Response(c) ELSE call[c].outLog[j - 1].ret)
         /\ call[c].outLog[j].ret =
              OutputMutate(invoker.OutputMutators[j], call[c].outLog[j].arg).ret
         /\ call[c].outLog[j].err =
              OutputMutate(invoker.OutputMutators[j], call[c].outLog[j].arg).err
         /\ call[c].outLog[j].err # Nil =>
              /\ Done(c)
              /\ call[c].err = call[c].outLog[j].err
              /\ call[c].payload = Nil
              /\ Len(call[c].outLog) = j
              /\ ~call[c].checked

C5_Witness ==
  /\ Done(1)
  /\ Len(call[1].outLog) = 2
  /\ invoker.OutputMutators[1].kind = "proc"
  /\ call[1].outLog[1].err = Nil
  /\ call[1].outLog[2].err = Ptr(OutputMutatorFailed)
  /\ Deref(Response(1)).FunctionError # Nil
  /\ call[1].err = Ptr(OutputMutatorFailed)

\* AsProcedure is the only option the Invoker was built with
OnlyAsProcedure ==
  /\ Len(invoker.InputMutators) = 1
  /\ Len(invoker.OutputMutators) = 1
  /\ invoker.InputMutators[1].kind = "proc"
  /\ invoker.OutputMutators[1].kind = "proc"

\* the request envelope a dispatcher parses out of what the transport received
Observed(c) == UnmarshalRequest(Bytes(Deref(Deref(call[c].sent)).Payload))

\* the payload is nil or one JSON value: json.Marshal can encode it as a body
Encodable(body) == body = Nil \/ Valid(Deref(body))

\* the body of the envelope as json.Marshal writes it
EncodedBody(body) == IF body = Nil THEN <<"null">> ELSE Compact(Deref(body))

\* the transport answered with a response envelope that parses, has no error
\* member, and came with no FunctionError
AnswersBody(c) ==
  /\ TransportSucceeded(c)
  /\ Response(c) # Nil
  /\ Deref(Response(c)).FunctionError = Nil
  /\ Deref(Response(c)).Payload # Nil
  /\ UnmarshalResponse(Deref(Deref(Response(c)).Payload)).err = Nil
  /\ UnmarshalResponse(Deref(Deref(Response(c)).Payload)).Error = Nil

\* the dispatcher routes the Invoker's procedure to the handler returning DoResult
DispatchesDo ==
  /\ OnlyAsProcedure
  /\ invoker.li.kind = "router"
  /\ invoker.InputMutators[1].procedure = "Do"

\* C6 as stated: through AsProcedure(p, g) and a dispatcher answering with
\* body R, Invoke returns exactly R and a nil error for every payload, and the
\* dispatcher observes procedure = p and body = the caller's payload.
C6_RoundTripEveryPayload ==
  \A c \in Calls :
    (DispatchesDo /\ Ended(c)) =>
      /\ Done(c)
      /\ call[c].payload = Ptr(DoResult)
      /\ call[c].err = Nil
      /\ call[c].sent # Nil
      /\ Observed(c).Procedure = "Do"
      /\ Observed(c).Body = call[c].body

\* C6 amended: for every payload that is nil or one valid JSON value the
\* dispatcher observes procedure = p and, as body, the payload as json.Marshal
\* encodes it (null for nil, else compacted and HTML-escaped), and Invoke
\* returns exactly the body R of an answer without error; for any other
\* payload the input mutator fails and the transport is not called.
C6_RoundTripEncodablePayload ==
  \A c \in Calls :
    (OnlyAsProcedure /\ Ended(c)) =>
      /\ ~Encodable(call[c].body) =>
           /\ Done(c)
           /\ call[c].payload = Nil
           /\ call[c].err = Ptr(MarshalerError)
           /\ call[c].sent = Nil
      /\ Encodable(call[c].body) =>
           /\ call[c].sent # Nil
           /\ Observed(c).err = Nil
           /\ Observed(c).Procedure = invoker.InputMutators[1].procedure
           /\ Observed(c).Body = Ptr(EncodedBody(call[c].body))
      /\ AnswersBody(c) =>
           /\ Done(c)
           /\ call[c].payload = UnmarshalResponse(Deref(Deref(Response(c)).Payload)).Body
           /\ call[c].err = Nil
      /\ (DispatchesDo /\ Encodable(call[c].body)) =>
           /\ AnswersBody(c)
           /\ call[c].payload = Ptr(DoResult)

C6_Witness ==
  /\ DispatchesDo
  /\ Done(1)
  /\ call[1].body = Nil
  /\ Observed(1).Body = Ptr(<<"null">>)
  /\ call[1].payload = Ptr(DoResult)
  /\ call[1].err = Nil

\* the output mutator j of the call is AsProcedure's and was handed a
\* response envelope whose error member is set
ErrorEnvelopeAt(c, j) ==
  /\ invoker.OutputMutators[j].kind = "proc"
  /\ call[c].outLog[j].arg # Nil
  /\ Deref(call[c].outLog[j].arg).Payload # Nil
  /\ UnmarshalResponse(Deref(Deref(call[c].outLog[j].arg).Payload)).err = Nil
  /\ UnmarshalResponse(Deref(Deref(call[c].outLog[j].arg).Payload)).Error # Nil

\* g(E) for the error member E of that envelope
UnmarshaledErrorAt(c, j) ==
  unmarshalError(invoker.OutputMutators[j].g,
                 Deref(UnmarshalResponse(Deref(Deref(call[c].outLog[j].arg).Payload)).Error))

\* C7: when the response envelope has its error member set to E, Invoke
\* returns exactly g(E) as its error, with a nil payload, and no later output
\* mutator runs.
C7_ErrorRoundTrip ==
  \A c \in Calls :
    \A j \in 1 .. Len(call[c].outLog) :
      (ErrorEnvelopeAt(c, j) /\ Ended(c)) =>
        /\ Done(c)
        /\ call[c].err = UnmarshaledErrorAt(c, j)
        /\ call[c].payload = Nil
        /\ Len(call[c].outLog) = j
        /\ ~call[c].checked

\* C7 where g(E) is an error: the same, for every g(E) that is not nil.
C7_ErrorRoundTripNonNil ==
  \A c \in Calls :
    \A j \in 1 .. Len(call[c].outLog) :
      (ErrorEnvelopeAt(c, j) /\ UnmarshaledErrorAt(c, j) # Nil) =>
        /\ Done(c)
        /\ call[c].err = UnmarshaledErrorAt(c, j)
        /\ call[c].payload = Nil
        /\ Len(call[c].outLog) = j
        /\ ~call[c].checked

\* C8 as stated: every Invoke that returns delivers exactly one of a payload
\* and an error.
C8_ExactlyOneOfPayloadAndError ==
  \A c \in Calls :
    Done(c) => ((call[c].payload # Nil) # (call[c].err # Nil))

\* C8 amended: Invoke never returns a payload together with an error; it
\* returns neither only after the FunctionError check, and exactly when the
\* response left by the output mutators has no payload and no FunctionError.
C8_NeverBothNeitherOnlyForEmptyResponse ==
  \A c \in Calls :
    Done(c) =>
      /\ ~(call[c].payload # Nil /\ call[c].err # Nil)
      /\ (call[c].payload = Nil /\ call[c].err = Nil) <=>
           /\ call[c].checked
           /\ LastOutput(c) # Nil
           /\ Deref(LastOutput(c)).Payload = Nil
           /\ Deref(LastOutput(c)).FunctionError = Nil

C8_Witness ==
  /\ Done(1)
  /\ call[1].checked
  /\ call[1].payload = Nil
  /\ call[1].err = Nil

\* C9: no step of any Invoke call, whatever its outcome and whatever the
\* other calls are doing, changes the Invoker: its transport, its target and
\* its two mutator lists stay as New left them.
C9_InvokerUnchanged == [][invoker' = invoker]_vars

C9_Witness ==
  /\ Len(invoker.InputMutators) = 2
  /\ Done(1)
  /\ call[1].err # Nil
  /\ call[2].pc = "output"
  /\ call[2].outLog # <<>>

\* C10: concurrent calls are independent: no two calls hold the same request
\* envelope, and under every interleaving the request a call hands to the
\* transport and what it returns are those of the same call run alone.
C10_CallsIndependent ==
  \A c \in Calls :
    /\ \A d \in Calls \ { c } :
         (call[c].input # Nil /\ call[d].input # Nil) => call[c].input # call[d].input
    /\ call[c].sent # Nil => call[c].sent = Invoke(invoker, call[c].body).sent
    /\ Done(c) =>
         /\ ~Invoke(invoker, call[c].body).panic
         /\ call[c].payload = Invoke(invoker, call[c].body).payload
         /\ call[c].err = Invoke(invoker, call[c].body).err
    /\ call[c].pc = "panic" => Invoke(invoker, call[c].body).panic

C10_Witness ==
  /\ invoker.InputMutators # <<>>
  /\ call[1].pc = "output"
  /\ call[2].pc = "output"
  /\ call[1].body # call[2].body
  /\ call[1].sent # call[2].sent
  /\ call[1].sent = Invoke(invoker, call[1].body).sent
  /\ call[2].sent = Invoke(invoker, call[2].body).sent

\* the two calls were made with the same payload
SamePayload(c, d) ==
  /\ c # d
  /\ call[c].pc # "idle"
  /\ call[d].pc # "idle"
  /\ call[c].body = call[d].body

\* C11: two calls of Invoke on the same Invoker with the same payload, the
\* second made after the first has ended or while it runs, hand the same
\* request to the transport and end the same way with the same payload and
\* error: the first call leaves nothing behind that changes the second.
C11_SameCallSameResult ==
  \A c \in Calls :
    \A d \in Calls :
      SamePayload(c, d) =>
        /\ (call[c].sent # Nil /\ call[d].sent # Nil) => call[c].sent = call[d].sent
        /\ (Ended(c) /\ Ended(d)) =>
             /\ call[c].pc = call[d].pc
             /\ call[c].sent = call[d].sent
             /\ call[c].payload = call[d].payload
             /\ call[c].err = call[d].err

C11_Witness ==
  /\ invoker.li.kind = "router"
  /\ invoker.OutputMutators # <<>>
  /\ SamePayload(1, 2)
  /\ Done(1)
  /\ Done(2)
  /\ call[1].sent # Nil
  /\ call[1].sent = call[2].sent
  /\ call[1].payload = Ptr(DoResult)
  /\ call[2].payload = Ptr(DoResult)

\* C12: with no input mutators the transport is called, and the request it
\* receives is the default one: target = the identifier given to New, mode =
\* "RequestResponse", payload = the payload handed to Invoke, a nil payload
\* still nil.
C12_DefaultRequestSent ==
  \A c \in Calls :
    (invoker.InputMutators = <<>> /\ call[c].pc \in { "output", "done", "panic" }) =>
      /\ call[c].sent # Nil
      /\ call[c].sent = Ptr(Ptr([FunctionName |-> Arn,
                                 InvocationType |-> "RequestResponse",
                                 Payload |-> call[c].body]))
      /\ call[c].inLog = <<>>

C12_Witness ==
  /\ invoker.InputMutators = <<>>
  /\ invoker.OutputMutators # <<>>
  /\ Done(1)
  /\ call[1].body = Nil
  /\ call[1].sent # Nil
  /\ Deref(Deref(call[1].sent)).Payload = Nil
  /\ Deref(Deref(call[1].sent)).FunctionName = Arn

\* the input mutator j of the call is AsProcedure's and has been applied
ProcedureInputAt(c, j) ==
  /\ j <= Len(call[c].inLog)
  /\ invoker.InputMutators[j].kind = "proc"
  /\ call[c].inLog[j].arg # Nil

\* the request that mutator was handed, and the payload in it
InputArgAt(c, j) == Deref(call[c].inLog[j].arg)

\* the request envelope a dispatcher parses out of the request it handed back
EnvelopeAt(c, j) == UnmarshalRequest(Bytes(Deref(call[c].inLog[j].ret).Payload))

\* the mutator handed back a request with the target and the mode it received
FrameKeptAt(c, j) ==
  /\ call[c].inLog[j].err = Nil
  /\ call[c].inLog[j].ret # Nil
  /\ Deref(call[c].inLog[j].ret).FunctionName = InputArgAt(c, j).FunctionName
  /\ Deref(call[c].inLog[j].ret).InvocationType = InputArgAt(c, j).InvocationType
  /\ Deref(call[c].inLog[j].ret).Payload # Nil
  /\ EnvelopeAt(c, j).err = Nil
  /\ EnvelopeAt(c, j).Procedure = invoker.InputMutators[j].procedure

\* C13 as stated: the input mutator of AsProcedure(p, g) always succeeds,
\* leaves the target and the mode as they were, and makes the payload the
\* envelope whose procedure is p and whose body is the payload it received.
C13_EnvelopeOfReceivedPayload ==
  \A c \in Calls :
    \A j \in 1 .. Len(invoker.InputMutators) :
      ProcedureInputAt(c, j) =>
        /\ FrameKeptAt(c, j)
        /\ EnvelopeAt(c, j).Body = InputArgAt(c, j).Payload

\* C13 amended: given a payload that is nil or one valid JSON value, the
\* mutator leaves the target and the mode as they were and makes the payload
\* the envelope whose procedure is p and whose body is the payload as
\* json.Marshal encodes it (null for nil, else compacted and HTML-escaped);
\* given any other payload it fails with the marshaling error, hands back no
\* request, and leaves the request as it was.
C13_EnvelopeOfEncodedPayload ==
  \A c \in Calls :
    \A j \in 1 .. Len(invoker.InputMutators) :
      ProcedureInputAt(c, j) =>
        /\ Encodable(InputArgAt(c, j).Payload) =>
             /\ FrameKeptAt(c, j)
             /\ EnvelopeAt(c, j).Body = Ptr(EncodedBody(InputArgAt(c, j).Payload))
        /\ ~Encodable(InputArgAt(c, j).Payload) =>
             /\ call[c].inLog[j].err = Ptr(MarshalerError)
             /\ call[c].inLog[j].ret = Nil
             /\ Len(call[c].inLog) = j
             /\ Done(c)
             /\ Load(inputs, call[c].input) = call[c].inLog[j].arg

\* the mutator ran second, on a payload a mutator before it had transformed
C13_Witness ==
  /\ ProcedureInputAt(1, 2)
  /\ invoker.InputMutators[1].kind = "array"
  /\ InputArgAt(1, 2).Payload = Ptr(<<"[", "1", "]">>)
  /\ FrameKeptAt(1, 2)
  /\ Deref(call[1].inLog[2].ret).FunctionName = Arn
  /\ EnvelopeAt(1, 2).Body = Ptr(<<"[", "1", "]">>)

\* the output mutator j of the call is AsProcedure's and has been applied
ProcedureOutputAt(c, j) ==
  /\ j <= Len(call[c].outLog)
  /\ invoker.OutputMutators[j].kind = "proc"
  /\ call[c].outLog[j].arg # Nil

\* the response that mutator was handed
OutputArgAt(c, j) == Deref(call[c].outLog[j].arg)

\* the mutator handed back the response it received and no error, and Invoke
\* went on to the next output mutator or to the FunctionError check
NoOpAt(c, j) ==
  /\ call[c].outLog[j].err = Nil
  /\ call[c].outLog[j].ret = call[c].outLog[j].arg
  /\ \/ call[c].pc = "output"
     \/ Len(call[c].outLog) > j
     \/ call[c].checked

\* C14: the output mutator of AsProcedure is a no-op whenever the payload of
\* the response it receives is nil or has length zero: it hands the response
\* back unchanged with no error, and Invoke goes on.
C14_NoOpForNilOrEmptyPayload ==
  \A c \in Calls :
    \A j \in 1 .. Len(invoker.OutputMutators) :
      (ProcedureOutputAt(c, j) /\ Bytes(OutputArgAt(c, j).Payload) = <<>>) => NoOpAt(c, j)

\* C14 for the nil payload alone: the mutator is a no-op.
C14_NoOpForNilPayload ==
  \A c \in Calls :
    \A j \in 1 .. Len(invoker.OutputMutators) :
      (ProcedureOutputAt(c, j) /\ OutputArgAt(c, j).Payload = Nil) => NoOpAt(c, j)

\* the bytes of the payload that mutator was handed
OutputBytesAt(c, j) == Bytes(OutputArgAt(c, j).Payload)

\* the first token of the JSON value in s
FirstToken(s) == s[SkipWS(s, 1)]

\* the payload is one JSON value that json.Unmarshal accepts for a struct:
\* an object, or null
IsEnvelope(s) == Valid(s) /\ FirstToken(s) \in { "{", "null" }

\* the mutator failed with the error e, and that ended the call: Invoke
\* returned e and a nil payload, no later mutator ran, nor did the check
OutputFailedAt(c, j, e) ==
  /\ call[c].outLog[j].err = Ptr(e)
  /\ call[c].outLog[j].ret = Nil
  /\ Done(c)
  /\ call[c].err = Ptr(e)
  /\ call[c].payload = Nil
  /\ Len(call[c].outLog) = j
  /\ ~call[c].checked

\* the mutator succeeded, handing back the response with the payload p and
\* with the FunctionError and the StatusCode it received
OutputReplacedAt(c, j, p) ==
  /\ call[c].outLog[j].err = Nil
  /\ call[c].outLog[j].ret # Nil
  /\ Deref(call[c].outLog[j].ret).Payload = p
  /\ Deref(call[c].outLog[j].ret).FunctionError = OutputArgAt(c, j).FunctionError
  /\ Deref(call[c].outLog[j].ret).StatusCode = OutputArgAt(c, j).StatusCode

\* C15: handed a non-empty payload, the output mutator of AsProcedure fails
\* with the parse error when the payload is not valid JSON or is a JSON value
\* that is neither an object nor null; when the envelope parses and its error
\* member is unset it succeeds with the payload replaced by the envelope's
\* body, a nil payload when the envelope has neither member; FunctionError and
\* StatusCode are left as they were.
C15_ParseOutcomes ==
  \A c \in Calls :
    \A j \in 1 .. Len(invoker.OutputMutators) :
      (ProcedureOutputAt(c, j) /\ OutputBytesAt(c, j) # <<>>) =>
        /\ ~Valid(OutputBytesAt(c, j)) => OutputFailedAt(c, j, SyntaxError)
        /\ (Valid(OutputBytesAt(c, j)) /\ ~IsEnvelope(OutputBytesAt(c, j))) =>
             OutputFailedAt(c, j, UnmarshalTypeError)
        /\ ( /\ IsEnvelope(OutputBytesAt(c, j))
             /\ UnmarshalResponse(OutputBytesAt(c, j)).Error = Nil ) =>
             OutputReplacedAt(c, j, UnmarshalResponse(OutputBytesAt(c, j)).Body)
        /\ Compact(OutputBytesAt(c, j)) = <<"{", "}">> => OutputReplacedAt(c, j, Nil)

\* an envelope with a body, in a response that carries a FunctionError
C15_Witness ==
  /\ ProcedureOutputAt(1, 1)
  /\ OutputBytesAt(1, 1) = <<"{", "\"body\"", ":", "1", "}">>
  /\ OutputArgAt(1, 1).FunctionError # Nil
  /\ OutputReplacedAt(1, 1, Ptr(<<"1">>))
  /\ Done(1)
  /\ call[1].err # Nil

\* a payload that is not an envelope
C15_WitnessParseError ==
  /\ ProcedureOutputAt(1, 1)
  /\ OutputBytesAt(1, 1) = <<"1">>
  /\ OutputFailedAt(1, 1, UnmarshalTypeError)

\* the input mutator j of the call was applied and returned without error
InputSucceededAt(c, j) ==
  /\ j <= Len(call[c].inLog)
  /\ call[c].inLog[j].err = Nil
  /\ ~InputMutate(invoker.InputMutators[j], call[c].inLog[j].arg).panic

AllInputMutatorsSucceeded(c) ==
  \A j \in 1 .. Len(invoker.InputMutators) : InputSucceededAt(c, j)

\* a failure is the last thing a call does: the entry is the last of its log,
\* the call has returned its error, and the later stages have not run
InputFailureEnds(c) ==
  \A j \in 1 .. Len(call[c].inLog) :
    call[c].inLog[j].err # Nil =>
      /\ j = Len(call[c].inLog)
      /\ Done(c)
      /\ call[c].err = call[c].inLog[j].err
      /\ call[c].transports = 0
      /\ call[c].outLog = <<>>
      /\ ~call[c].checked

TransportFailureEnds(c) ==
  TransportFailed(c) =>
    /\ Done(c)
    /\ call[c].err = Deref(call[c].got).err
    /\ call[c].outLog = <<>>
    /\ ~call[c].checked

OutputFailureEnds(c) ==
  \A j \in 1 .. Len(call[c].outLog) :
    call[c].outLog[j].err # Nil =>
      /\ j = Len(call[c].outLog)
      /\ Done(c)
      /\ call[c].err = call[c].outLog[j].err
      /\ ~call[c].checked

\* C16: in every call the transport is called at most once, and once exactly
\* when every input mutator returned without error; no mutator list is walked
\* more than once; the first failure of an input mutator, of the transport or
\* of an output mutator is the last step of the call.
C16_AtMostOnceNoRetry ==
  \A c \in Calls :
    /\ call[c].transports <= 1
    /\ (call[c].transports = 1) = (call[c].sent # Nil)
    /\ call[c].pc \in { "output", "done", "panic" } =>
         ((call[c].transports = 1) <=> AllInputMutatorsSucceeded(c))
    /\ call[c].pc \in { "idle", "input" } => call[c].transports = 0
    /\ Len(call[c].inLog) <= Len(invoker.InputMutators)
    /\ Len(call[c].outLog) <= Len(invoker.OutputMutators)
    /\ call[c].pc = "input" => Len(call[c].inLog) = call[c].k - 1
    /\ call[c].pc = "output" => Len(call[c].outLog) = call[c].k - 1
    /\ InputFailureEnds(c)
    /\ TransportFailureEnds(c)
    /\ OutputFailureEnds(c)

\* two input mutators succeeded, the transport was called once and failed
C16_Witness ==
  /\ Len(invoker.InputMutators) = 2
  /\ invoker.OutputMutators # <<>>
  /\ AllInputMutatorsSucceeded(1)
  /\ call[1].transports = 1
  /\ TransportFailed(1)
  /\ Done(1)
  /\ call[1].outLog = <<>>

\* an input mutator failed and the transport was not called
C16_WitnessNotCalled ==
  /\ Len(invoker.InputMutators) = 2
  /\ Len(call[1].inLog) = 1
  /\ call[1].inLog[1].err # Nil
  /\ Done(1)
  /\ call[1].transports = 0

\* every mutator of the Invoker was installed by AsProcedure, and the
\* transport is one that returns a response or an error
OnlyProcedureMutators ==
  /\ invoker.li.kind # "nil"
  /\ invoker.OutputMutators # <<>>
  /\ \A j \in 1 .. Len(invoker.InputMutators) : invoker.InputMutators[j].kind = "proc"
  /\ \A j \in 1 .. Len(invoker.OutputMutators) : invoker.OutputMutators[j].kind = "proc"

\* the call never holds a nil envelope where it goes on to use it, and has
\* not panicked
HoldsEnvelopes(c) ==
  /\ call[c].pc # "panic"
  /\ call[c].pc = "input" => call[c].input # Nil
  /\ call[c].pc = "output" => call[c].output # Nil

\* C17: for an Invoker whose mutators are those of AsProcedure(p, g), whatever
\* g is: when the response envelope has its error member set, Invoke returns
\* a non-nil error and a nil payload; and Invoke never reaches the next
\* mutator, the transport or the FunctionError check with a nil envelope.
C17_NeverNilEnvelope ==
  \A c \in Calls :
    OnlyProcedureMutators =>
      /\ HoldsEnvelopes(c)
      /\ \A j \in 1 .. Len(call[c].outLog) :
           (ErrorEnvelopeAt(c, j) /\ call[c].pc # "output") =>
             /\ Done(c)
             /\ call[c].err # Nil
             /\ call[c].payload = Nil

\* C17 for the functions g that never return nil: the same holds.
C17_NeverNilEnvelopeNonNil ==
  \A c \in Calls :
    ( /\ OnlyProcedureMutators
      /\ \A j \in 1 .. Len(invoker.OutputMutators) : invoker.OutputMutators[j].g # "nilOnNull" )
    => /\ HoldsEnvelopes(c)
       /\ \A j \in 1 .. Len(call[c].outLog) :
            (ErrorEnvelopeAt(c, j) /\ call[c].pc # "output") =>
              /\ Done(c)
              /\ call[c].err # Nil
              /\ call[c].payload = Nil

\* the error member of the envelope that mutator was handed
ErrorMemberAt(c, j) == Deref(UnmarshalResponse(OutputBytesAt(c, j)).Error)

\* error bytes that are not one JSON value
UnparsableErrors == { <<>>, <<"x">>, <<"{">>, <<"1", " ", "1">>, <<"\"error\"", ":">> }

\* C18: AsProcedure given no unmarshaling function uses the default, which
\* never returns nil: for error bytes that parse, the error's text is
\* fmt.Sprint of the decoded value and that error is what Invoke returns, with
\* a nil payload; for bytes that do not parse, the text is the bytes verbatim.
C18_DefaultUnmarshalError ==
  /\ \A c \in Calls :
       \A j \in 1 .. Len(call[c].outLog) :
         (ErrorEnvelopeAt(c, j) /\ invoker.OutputMutators[j].g = "default") =>
           /\ Valid(ErrorMemberAt(c, j))
           /\ call[c].outLog[j].err = Ptr(ErrorString(Sprint(ErrorMemberAt(c, j))))
           /\ ErrorMemberAt(c, j) = <<"null">> =>
                call[c].outLog[j].err = Ptr(ErrorString("<nil>"))
           /\ ErrorMemberAt(c, j) = OnError =>
                call[c].outLog[j].err = Ptr(ErrorString("map[complex:error]"))
           /\ Done(c)
           /\ call[c].err = call[c].outLog[j].err
           /\ call[c].payload = Nil
  /\ \A e \in UnparsableErrors :
       /\ ~Valid(e)
       /\ unmarshalError("default", e) = Ptr(ErrorString(String(e)))

\* the dispatcher answered with the error {"complex":"error"}
C18_Witness ==
  /\ invoker.li.kind = "router"
  /\ Len(call[1].outLog) = 1
  /\ ErrorEnvelopeAt(1, 1)
  /\ invoker.OutputMutators[1].g = "default"
  /\ ErrorMemberAt(1, 1) = OnError
  /\ Done(1)
  /\ call[1].err = Ptr(ErrorString("map[complex:error]"))
  /\ call[1].payload = Nil

\* the list after is the list before with the one mutator m at its end
Appended(before, after, m) ==
  /\ Len(after) = Len(before) + 1
  /\ SubSeq(after, 1, Len(before)) = before
  /\ after[Len(after)] = m

\* r is the Invoker i with the option o applied: an AsProcedure option adds
\* its input mutator and its output mutator at the ends of the two lists, a
\* caller's option its one mutator at the end of its list, and neither
\* touches the transport or the target
OptionApplied(o, i, r) ==
  /\ r.li = i.li
  /\ r.arn = i.arn
  /\ o.opt = "AsProcedure" =>
       /\ Appended(i.InputMutators, r.InputMutators,
                   [kind |-> "proc", procedure |-> o.procedure])
       /\ Appended(i.OutputMutators, r.OutputMutators, [kind |-> "proc", g |-> o.g])
  /\ o.opt = "InputMutators" =>
       /\ Appended(i.InputMutators, r.InputMutators, [kind |-> o.kind, procedure |-> ""])
       /\ r.OutputMutators = i.OutputMutators
  /\ o.opt = "OutputMutators" =>
       /\ r.InputMutators = i.InputMutators
       /\ Appended(i.OutputMutators, r.OutputMutators, [kind |-> o.kind, g |-> ""])

\* New over every transport and every list of options: the last option
\* applied to what New builds from the options before it
NewAppends ==
  \A li \in Transports :
    \A opts \in OptionLists :
      /\ New(li, Arn, opts).li = li
      /\ New(li, Arn, opts).arn = Arn
      /\ opts = <<>> =>
           /\ New(li, Arn, opts).InputMutators = <<>>
           /\ New(li, Arn, opts).OutputMutators = <<>>
      /\ opts # <<>> =>
           OptionApplied(opts[Len(opts)],
                         New(li, Arn, SubSeq(opts, 1, Len(opts) - 1)),
                         New(li, Arn, opts))

\* C19: New with no options gives an Invoker with the transport and the
\* target it was given and two empty mutator lists; New with the options
\* o1..on gives New with o1..o(n-1) to which on has been applied, and applying
\* an AsProcedure option appends exactly one input and one output mutator,
\* keeping the mutators before it and their order, the transport and the
\* target.  The Invoker in use is one New built: at most one mutator per
\* option in each list.
C19_NewAppendsInOrder ==
  /\ NewAppends
  /\ invoker.arn = Arn
  /\ invoker.li \in Transports
  /\ Len(invoker.InputMutators) <= MaxOpts
  /\ Len(invoker.OutputMutators) <= MaxOpts

\* an Invoker built with a caller's option and then AsProcedure has made a call
C19_Witness ==
  /\ invoker = New(invoker.li, Arn, <<UserOption("InputMutators", "array"),
                                      AsProcedureOption("On", "typed")>>)
  /\ invoker.InputMutators = <<[kind |-> "array", procedure |-> ""],
                               [kind |-> "proc", procedure |-> "On"]>>
  /\ invoker.OutputMutators = <<[kind |-> "proc", g |-> "typed"]>>
  /\ Len(call[1].inLog) = 2
  /\ Done(1)

\* a transport that returns neither a response nor an error: Invoke goes on
\* with a nil response and panics where it first reads it, in the output
\* mutator of AsProcedure or, without output mutators, in the FunctionError
\* check
NilResponsePanics ==
  \A c \in Calls :
    ( /\ invoker.li.kind = "nil"
      /\ Ended(c)
      /\ call[c].transports = 1
      /\ invoker.OutputMutators # <<>> => invoker.OutputMutators[1].kind = "proc" )
    => /\ call[c].pc = "panic"
       /\ call[c].output = Nil
       /\ Len(call[c].outLog) <= 1

\* an error member with two members named complex, the first not a string:
\* the typed function returns the UnmarshalTypeError of the first, the
\* default one renders the decoded map, in which the last member stands
DuplicateMembersDecoded ==
  \A c \in Calls :
    \A j \in 1 .. Len(call[c].outLog) :
      ( /\ ErrorEnvelopeAt(c, j)
        /\ ErrorMemberAt(c, j) = <<"{", "\"complex\"", ":", "1", ",",
                                   "\"complex\"", ":", "\"error\"", "}">> ) =>
        /\ invoker.OutputMutators[j].g = "typed" =>
             call[c].outLog[j].err = Ptr(UnmarshalTypeError)
        /\ invoker.OutputMutators[j].g = "default" =>
             call[c].outLog[j].err = Ptr(ErrorString("map[complex:error]"))
====
